---- MODULE Spec2Model ----
(***************************************************************************)
(* Usage accounting and generation gating of the Unhinged web client       *)
(* (unhinged-app/public/app.js): the quota clock, the local usage ledger   *)
(* in localStorage, the remote generations and credits tables, the cached  *)
(* remote count, the generation gate and the credit ledger.                *)
(*                                                                         *)
(* Time is counted in whole days of one year (day 1 = January 1), in a     *)
(* browser whose time zone is UTC.  One browser session is modelled; the   *)
(* remote tables are the Account Store's rows.                             *)
(***************************************************************************)
EXTENDS Integers, Sequences, FiniteSets, TLC

\* ------------------------------------------------------------------ bounds
MaxDay == 3        \* the clock stops after this day
MaxGens == 2       \* successful generations (history ids) per behaviour
MaxAnonGens == 6   \* the same, in the anonymous-only specification
MaxBalance == 27   \* addCredits is not tried beyond this balance
MaxPending == 1    \* generation inserts in flight at once
MaxFaults == 1     \* failed Account Store calls per behaviour
MaxSaves == 52     \* saveToHistory calls in the history-only specification
MaxLocal == 22     \* local history entries at the start of the migration specification
MaxRaceGens == 4   \* generations let through in the two-session specification

\* --------------------------------------------------------- program constants
FREE_LIMIT_ANONYMOUS == 5
FREE_LIMIT_AUTHENTICATED == 10
COOLDOWN_DAYS == 2
CREDIT_PACK_SIZE == 25
HISTORY_LIMIT == 50
MIGRATE_LIMIT == 20

Users == {"A", "B"}
NoUser == "none"          \* currentUser === null
NoCount == 0 - 1          \* cachedCloudUsage === null
NoPeriod == 0             \* cachedCloudUsagePeriod === null, data.period undefined

ReadOutcomes == {"ok", "null", "throw"}   \* count returned, count null, rejected
WriteOutcomes == {"ok", "fail"}
FetchFailures == {"notOk", "noOpeners", "throw"}
PaymentParams == {"none", "success", "cancelled"}

VARIABLES
    now,                    \* wall clock, day of the year
    session,                \* the Account Store's persisted auth session
    currentUser,            \* let currentUser
    purchasedCredits,       \* let purchasedCredits
    cachedCloudUsage,       \* let cachedCloudUsage
    cachedCloudUsagePeriod, \* let cachedCloudUsagePeriod
    usage,                  \* localStorage 'unhinged_usage'
    credits,                \* remote table credits, by id
    generations,            \* remote table generations, in insertion order
    pending,                \* generation inserts sent and not yet answered
    url,                    \* the payment parameter of window.location
    pc,                     \* position of the page's control flow
    nextId,                 \* Date.now() of the next history entry
    toast,                  \* the latest showToast message
    faults,                 \* Account Store calls that have failed so far
    other,                  \* the page state of a second session of identity "A"
    reading                 \* a count query sent and not yet answered

vars == <<now, session, currentUser, purchasedCredits, cachedCloudUsage,
          cachedCloudUsagePeriod, usage, credits, generations, pending, url,
          pc, nextId, toast, faults, other, reading>>

Max(a, b) == IF a >= b THEN a ELSE b
Min(a, b) == IF a <= b THEN a ELSE b

\* ------------------------------------------------------------- quota clock
DayOfYear(d) == d

PeriodNumber(d) == DayOfYear(d) \div COOLDOWN_DAYS

\* the day of new Date(year, 0, periodNumber * COOLDOWN_DAYS + 1)
GetCooldownPeriodStart(d) == PeriodNumber(d) * COOLDOWN_DAYS + 1

\* the day of new Date(year, 0, (periodNumber + 1) * COOLDOWN_DAYS + 1)
GetNextResetTime(d) == (PeriodNumber(d) + 1) * COOLDOWN_DAYS + 1

\* ------------------------------------------------------------ local ledger
EmptyUsage == [count |-> 0, period |-> NoPeriod, total |-> 0, history |-> <<>>]

\* variant: a fallback that forgets to compare the period key
LocalCount_AnyPeriod(us, d) == us.count

\* the fallback of getFreeUsageCount
LocalCount(us, d) ==
    IF us.period # GetCooldownPeriodStart(d) THEN 0 ELSE us.count

\* variant: an incrementUsage without the lazy reset
IncrementLocal_NoReset(us, d) ==
    [us EXCEPT !.count = @ + 1, !.total = @ + 1,
               !.period = GetCooldownPeriodStart(d)]

\* the localStorage part of incrementUsage
IncrementLocal(us, d) ==
    LET key == GetCooldownPeriodStart(d)
        data == IF us.period # key
                THEN [us EXCEPT !.count = 0, !.period = key]
                ELSE us
    IN [data EXCEPT !.count = @ + 1, !.total = @ + 1]

\* variant: an incrementUsage that leaves the cached count alone
IncrementCached_Never(cu) == cu

\* the cached-count part of incrementUsage
IncrementCached(cu) == IF cu # NoCount THEN cu + 1 ELSE cu

\* variant: a credit branch that also counts against the free allowance
CountTotal_AsFree(us) == [us EXCEPT !.count = @ + 1, !.total = @ + 1]

\* the credit branch of consumeGeneration: lifetime total only
CountTotal(us) == [us EXCEPT !.total = @ + 1]

\* variant: a saveToHistory that truncates from the front
Unshift_DropsNewest(us, item) ==
    LET h == <<item>> \o us.history
    IN [us EXCEPT !.history =
           SubSeq(h, Max(1, Len(h) - HISTORY_LIMIT + 1), Len(h))]

\* the localStorage part of saveToHistory
Unshift(us, item) ==
    LET h == <<item>> \o us.history
    IN [us EXCEPT !.history = SubSeq(h, 1, Min(Len(h), HISTORY_LIMIT))]

\* ----------------------------------------------------------- remote ledger
\* .from('generations').select(count).eq('user_id', u).gte('created_at', start)
RemoteCount(rows, u, start) ==
    Cardinality({i \in DOMAIN rows :
                    rows[i].user_id = u /\ rows[i].created_at >= start})

NoRow == [exists |-> FALSE, balance |-> 0, total_purchased |-> 0]

\* ---------------------------------------------------------------- reconciler
GetFreeLimit(user) ==
    IF user # NoUser THEN FREE_LIMIT_AUTHENTICATED ELSE FREE_LIMIT_ANONYMOUS

\* getFreeUsageCount: the count it returns and the cache it leaves
GetFreeUsageCount(user, cu, cup, us, rows, d, o) ==
    LET periodStart == GetCooldownPeriodStart(d)
        local == [used |-> LocalCount(us, d), cu |-> cu, cup |-> cup]
    IN  IF user # NoUser
        THEN IF cup = periodStart /\ cu # NoCount
             THEN [used |-> cu, cu |-> cu, cup |-> cup, read |-> "cache"]
             ELSE CASE o = "ok" ->
                         LET count == RemoteCount(rows, user, periodStart)
                         IN [used |-> count, cu |-> count, cup |-> periodStart,
                             read |-> "ok"]
                    [] o = "null" ->
                         [used |-> 0, cu |-> 0, cup |-> periodStart,
                          read |-> "null"]
                    [] OTHER -> local @@ [read |-> "throw"]
        ELSE local @@ [read |-> "local"]

\* variant: the difference without Math.max
GetRemainingFreeGenerations_NoFloor(user, used) == GetFreeLimit(user) - used

GetRemainingFreeGenerations(user, used) == Max(0, GetFreeLimit(user) - used)

\* --------------------------------------------------------------- credit ledger
\* loadCredits: the balance it stores in purchasedCredits
LoadCredits(user, rows, o) ==
    IF user = NoUser THEN 0
    ELSE IF o = "ok" /\ rows[user].exists /\ rows[user].balance # 0
         THEN rows[user].balance
         ELSE 0

\* variant: an addCredits without the currentUser guard
AddCredits_NoGuard(user, pcred, rows, amount, o) ==
    IF o = "ok"
    THEN [ok |-> TRUE, pcred |-> pcred + amount,
          rows |-> IF user = NoUser THEN rows
                   ELSE [rows EXCEPT ![user] =
                            [exists |-> TRUE, balance |-> pcred + amount,
                             total_purchased |-> pcred + amount]]]
    ELSE [ok |-> FALSE, pcred |-> pcred, rows |-> rows]

\* addCredits: its result, the balance and the table it leaves
AddCredits(user, pcred, rows, amount, o) ==
    IF user = NoUser THEN [ok |-> FALSE, pcred |-> pcred, rows |-> rows]
    ELSE IF o = "ok"
         THEN [ok |-> TRUE, pcred |-> pcred + amount,
               rows |-> [rows EXCEPT ![user] =
                            [exists |-> TRUE, balance |-> pcred + amount,
                             total_purchased |-> pcred + amount]]]
         ELSE [ok |-> FALSE, pcred |-> pcred, rows |-> rows]

\* variant: a useCredit that lowers the in-memory balance before the write
\* and does not restore it when the write fails
UseCredit_Unchecked(user, pcred, rows, o) ==
    IF user = NoUser \/ pcred <= 0
    THEN [ok |-> FALSE, pcred |-> pcred, rows |-> rows]
    ELSE IF o = "ok"
         THEN [ok |-> TRUE, pcred |-> pcred - 1,
               rows |-> IF rows[user].exists
                        THEN [rows EXCEPT ![user].balance = pcred - 1]
                        ELSE rows]
         ELSE [ok |-> FALSE, pcred |-> pcred - 1, rows |-> rows]

\* useCredit: its result, the balance and the table it leaves
UseCredit(user, pcred, rows, o) ==
    IF user = NoUser \/ pcred <= 0
    THEN [ok |-> FALSE, pcred |-> pcred, rows |-> rows]
    ELSE IF o = "ok"
         THEN [ok |-> TRUE, pcred |-> pcred - 1,
               rows |-> IF rows[user].exists
                        THEN [rows EXCEPT ![user].balance = pcred - 1]
                        ELSE rows]
         ELSE [ok |-> FALSE, pcred |-> pcred, rows |-> rows]

\* consumeGeneration: the branch it takes and the state it leaves.  o1 is the
\* outcome of its own count read, w of the credits write, o2 of the count
\* reads of the updateStats / updateGenerateUsage calls that follow.
ConsumeGeneration(user, pcred, cu, cup, us, crows, grows, d, o1, w, o2) ==
    LET r == GetFreeUsageCount(user, cu, cup, us, grows, d, o1)
        freeRemaining == GetRemainingFreeGenerations(user, r.used)
        branch == IF freeRemaining > 0 THEN "free"
                  ELSE IF pcred > 0 THEN "credit" ELSE "none"
        uc == UseCredit(user, pcred, crows, w)
        cu1 == IF branch = "free" THEN IncrementCached(r.cu) ELSE r.cu
        us1 == CASE branch = "free" -> IncrementLocal(us, d)
                 [] branch = "credit" -> CountTotal(us)
                 [] OTHER -> us
        after == GetFreeUsageCount(user, cu1, r.cup, us1, grows, d, o2)
    IN  [branch |-> branch,
         ok |-> IF branch = "credit" THEN uc.ok ELSE FALSE,
         read |-> r.read, used |-> r.used, free |-> freeRemaining,
         pcred |-> IF branch = "credit" THEN uc.pcred ELSE pcred,
         crows |-> IF branch = "credit" THEN uc.rows ELSE crows,
         cu |-> after.cu, cup |-> after.cup, us |-> us1]

\* ------------------------------------------------------------------ migration
RECURSIVE MigrateItems_StopsAtFailure(_, _, _, _)
\* variant: an insert loop that a rejected insert ends
MigrateItems_StopsAtFailure(items, i, failed, user) ==
    IF i > Len(items) \/ i \in failed THEN <<>>
    ELSE <<[user_id |-> user, created_at |-> items[i].date,
            src |-> items[i].id]>>
         \o MigrateItems_StopsAtFailure(items, i + 1, failed, user)

RECURSIVE MigrateItems(_, _, _, _)
\* the insert loop of migrateLocalHistoryToCloud from item i on; the inserts
\* of the items in failed are rejected
MigrateItems(items, i, failed, user) ==
    IF i > Len(items) THEN <<>>
    ELSE (IF i \in failed THEN <<>>
          ELSE <<[user_id |-> user, created_at |-> items[i].date,
                  src |-> items[i].id]>>)
         \o MigrateItems(items, i + 1, failed, user)

HasRows(rows, user) == \E i \in DOMAIN rows : rows[i].user_id = user

\* migrateLocalHistoryToCloud: the generations table it leaves.  chk is the
\* outcome of the existence query: "rows" (data returned), "nodata" (no data
\* returned), "throw" (rejected)
MigrateLocalHistoryToCloud(user, us, rows, chk, failed) ==
    IF user = NoUser \/ Len(us.history) = 0 THEN rows
    ELSE IF chk = "throw" THEN rows
    ELSE IF chk = "rows" /\ HasRows(rows, user) THEN rows
    ELSE rows \o MigrateItems(SubSeq(us.history, 1,
                                     Min(Len(us.history), MIGRATE_LIMIT)),
                              1, failed, user)

CheckOutcomes == {"rows", "nodata", "throw"}

\* ------------------------------------------------------------------- state
\* a second session that is not open
\* no count query is under way
NoRead == [count |-> NoCount, period |-> NoPeriod]

NoOther ==
    [pc |-> "closed", purchasedCredits |-> 0, cachedCloudUsage |-> NoCount,
     cachedCloudUsagePeriod |-> NoPeriod, usage |-> EmptyUsage]

InitRows == FREE_LIMIT_AUTHENTICATED - 1

Init ==
    /\ now = 1
    /\ session = NoUser
    /\ currentUser = NoUser
    /\ purchasedCredits = 0
    /\ cachedCloudUsage = NoCount
    /\ cachedCloudUsagePeriod = NoPeriod
    /\ usage = EmptyUsage
    /\ credits = [u \in Users |->
                    IF u = "A"
                    THEN [exists |-> TRUE, balance |-> 1,
                          total_purchased |-> CREDIT_PACK_SIZE]
                    ELSE NoRow]
    /\ generations = [i \in 1..InitRows |->
                        [user_id |-> "A", created_at |-> 1, src |-> 0]]
    /\ pending = <<>>
    /\ url = "none"
    /\ pc = "init"
    /\ nextId = 1
    /\ toast = "none"
    /\ faults = 0
    /\ other = NoOther
    /\ reading = NoRead

Running == pc \in {"idle", "fetching"}

\* the number of failed calls among the outcomes os
Failed(os) == Cardinality({i \in DOMAIN os : os[i] \notin {"ok", "rows"}})

\* at most MaxFaults calls fail in a behaviour
Fault(n) == faults + n <= MaxFaults /\ faults' = faults + n

\* ------------------------------------------------------------------ actions
Tick ==
    /\ now < MaxDay
    /\ now' = now + 1
    /\ UNCHANGED <<reading, other, session, currentUser, purchasedCredits, cachedCloudUsage,
                   cachedCloudUsagePeriod, usage, credits, generations,
                   pending, url, pc, nextId, toast, faults>>

\* the DOMContentLoaded handler up to and including initSupabase, on a page
\* whose URL carries payment parameter p; lc is the outcome of loadCredits
InitSupabase(p, lc) ==
    /\ p = "success" =>
          LoadCredits(session, credits, lc) + CREDIT_PACK_SIZE <= MaxBalance
    /\ Fault(Failed(<<lc>>))
    /\ url' = p
    /\ currentUser' = session
    /\ purchasedCredits' = LoadCredits(session, credits, lc)
    /\ cachedCloudUsage' = NoCount
    /\ cachedCloudUsagePeriod' = NoPeriod
    /\ pc' = "loaded"
    /\ toast' = "none"
    /\ UNCHANGED <<reading, other, now, session, usage, credits, generations, pending, nextId>>

\* variant: a checkPaymentStatus that leaves the payment parameter in the URL
CheckPaymentStatus_KeepsParam(w, o) ==
    /\ pc = "loaded"
    /\ Fault(Failed(<<w, o>>))
    /\ LET a == IF url = "success"
                THEN AddCredits(currentUser, purchasedCredits, credits,
                                CREDIT_PACK_SIZE, w)
                ELSE [ok |-> FALSE, pcred |-> purchasedCredits, rows |-> credits]
           r == GetFreeUsageCount(currentUser, cachedCloudUsage,
                                  cachedCloudUsagePeriod, usage, generations,
                                  now, o)
       IN  /\ purchasedCredits' = a.pcred
           /\ credits' = a.rows
           /\ cachedCloudUsage' = r.cu
           /\ cachedCloudUsagePeriod' = r.cup
    /\ toast' = CASE url = "success" -> "creditsAdded"
                  [] url = "cancelled" -> "cancelled"
                  [] OTHER -> toast
    /\ pc' = "idle"
    /\ UNCHANGED <<reading, other, now, session, currentUser, usage, generations, pending,
                   nextId, url>>

\* the rest of the DOMContentLoaded handler: checkPaymentStatus with credits
\* write outcome w, then showHome (its updateStats count read has outcome o)
\* or showLogin
CheckPaymentStatus(w, o) ==
    /\ pc = "loaded"
    /\ Fault(Failed(<<w, o>>))
    /\ LET a == IF url = "success"
                THEN AddCredits(currentUser, purchasedCredits, credits,
                                CREDIT_PACK_SIZE, w)
                ELSE [ok |-> FALSE, pcred |-> purchasedCredits, rows |-> credits]
           r == GetFreeUsageCount(currentUser, cachedCloudUsage,
                                  cachedCloudUsagePeriod, usage, generations,
                                  now, o)
       IN  /\ purchasedCredits' = a.pcred
           /\ credits' = a.rows
           /\ cachedCloudUsage' = r.cu
           /\ cachedCloudUsagePeriod' = r.cup
    /\ toast' = CASE url = "success" -> "creditsAdded"
                  [] url = "cancelled" -> "cancelled"
                  [] OTHER -> toast
    /\ url' = "none"
    /\ pc' = "idle"
    /\ UNCHANGED <<reading, other, now, session, currentUser, usage, generations, pending, nextId>>

\* the onAuthStateChange handler on SIGNED_IN for user u: loadCredits (lc),
\* migrateLocalHistoryToCloud (chk, failed), showHome (o)
SignedIn(u, lc, chk, failed, o) ==
    /\ Running
    /\ Fault(Failed(<<lc, chk, o>>) + Cardinality(failed))
    /\ session' = u
    /\ currentUser' = u
    /\ purchasedCredits' = LoadCredits(u, credits, lc)
    /\ generations' = MigrateLocalHistoryToCloud(u, usage, generations, chk, failed)
    /\ LET aborted == Len(usage.history) > 0 /\ chk = "throw"
           r == GetFreeUsageCount(u, cachedCloudUsage, cachedCloudUsagePeriod,
                                  usage, generations', now,
                                  IF aborted THEN "throw" ELSE o)
       IN  /\ cachedCloudUsage' = r.cu
           /\ cachedCloudUsagePeriod' = r.cup
           /\ toast' = IF aborted THEN toast ELSE "signedIn"
    /\ UNCHANGED <<reading, other, now, usage, credits, pending, url, pc, nextId>>

\* the onAuthStateChange handler on SIGNED_OUT (sign-out elsewhere, expiry)
SignedOut ==
    /\ Running
    /\ session # NoUser
    /\ session' = NoUser
    /\ currentUser' = NoUser
    /\ purchasedCredits' = 0
    /\ UNCHANGED <<reading, other, now, cachedCloudUsage, cachedCloudUsagePeriod, usage,
                   credits, generations, pending, url, pc, nextId, toast,
                   faults>>

\* the onAuthStateChange handler on any other event (TOKEN_REFRESHED, ...)
AuthOther ==
    /\ Running
    /\ session # NoUser
    /\ currentUser' = session
    /\ UNCHANGED <<reading, other, now, session, purchasedCredits, cachedCloudUsage,
                   cachedCloudUsagePeriod, usage, credits, generations,
                   pending, url, pc, nextId, toast, faults>>

\* signOut(): so = "ok" when auth.signOut() ends the session (the SIGNED_OUT
\* handler then runs inside it), "fail" when it returns an error
SignOut(so) ==
    /\ Running
    /\ currentUser # NoUser
    /\ Fault(Failed(<<so>>))
    /\ session' = IF so = "ok" THEN NoUser ELSE session
    /\ purchasedCredits' = IF so = "ok" THEN 0 ELSE purchasedCredits
    /\ currentUser' = NoUser
    /\ toast' = "signedOut"
    /\ UNCHANGED <<reading, other, now, cachedCloudUsage, cachedCloudUsagePeriod, usage,
                   credits, generations, pending, url, pc, nextId>>

\* variant: a generateOpeners that counts the attempt before canGenerate
GenCheckUpTo_CountsAttempt(o, cap) ==
    /\ pc = "idle"
    /\ Fault(Failed(<<o>>))
    /\ LET r == GetFreeUsageCount(currentUser, cachedCloudUsage,
                                  cachedCloudUsagePeriod, usage, generations,
                                  now, o)
           freeRemaining == GetRemainingFreeGenerations(currentUser, r.used)
           canGen == freeRemaining > 0 \/ purchasedCredits > 0
       IN  /\ canGen => nextId <= cap /\ Len(pending) < MaxPending
           /\ cachedCloudUsage' = r.cu
           /\ cachedCloudUsagePeriod' = r.cup
           /\ pc' = IF canGen THEN "fetching" ELSE "idle"
           /\ toast' = IF canGen THEN toast ELSE "noGenerations"
    /\ usage' = CountTotal(usage)
    /\ UNCHANGED <<reading, other, now, session, currentUser, purchasedCredits, credits,
                   generations, pending, url, nextId>>

\* generateOpeners up to the fetch: canGenerate, whose count read has outcome o;
\* cap bounds the generations that are let through
GenCheckUpTo(o, cap) ==
    /\ pc = "idle"
    /\ Fault(Failed(<<o>>))
    /\ LET r == GetFreeUsageCount(currentUser, cachedCloudUsage,
                                  cachedCloudUsagePeriod, usage, generations,
                                  now, o)
           freeRemaining == GetRemainingFreeGenerations(currentUser, r.used)
           canGen == freeRemaining > 0 \/ purchasedCredits > 0
       IN  /\ canGen => nextId <= cap /\ Len(pending) < MaxPending
           /\ cachedCloudUsage' = r.cu
           /\ cachedCloudUsagePeriod' = r.cup
           /\ pc' = IF canGen THEN "fetching" ELSE "idle"
           /\ toast' = IF canGen THEN toast ELSE "noGenerations"
    /\ UNCHANGED <<reading, other, now, session, currentUser, purchasedCredits, usage, credits,
                   generations, pending, url, nextId>>

GenCheck(o) == GenCheckUpTo(o, MaxGens)

\* variant: a generateOpeners that consumes before it knows the outcome
GenFetchFail_Charging(kind, o) ==
    /\ pc = "fetching"
    /\ Fault(Failed(<<o>>))
    /\ LET r == GetFreeUsageCount(currentUser, cachedCloudUsage,
                                  cachedCloudUsagePeriod, usage, generations,
                                  now, o)
       IN  /\ cachedCloudUsage' = r.cu
           /\ cachedCloudUsagePeriod' = r.cup
    /\ usage' = IncrementLocal(usage, now)
    /\ toast' = IF kind = "throw" THEN "error" ELSE "failed"
    /\ pc' = "idle"
    /\ UNCHANGED <<reading, other, now, session, currentUser, purchasedCredits, credits,
                   generations, pending, url, nextId>>

\* generateOpeners when the generation did not succeed: the toast, then
\* showGenerate, whose updateGenerateUsage count read has outcome o
GenFetchFail(kind, o) ==
    /\ pc = "fetching"
    /\ Fault(Failed(<<o>>))
    /\ LET r == GetFreeUsageCount(currentUser, cachedCloudUsage,
                                  cachedCloudUsagePeriod, usage, generations,
                                  now, o)
       IN  /\ cachedCloudUsage' = r.cu
           /\ cachedCloudUsagePeriod' = r.cup
    /\ toast' = IF kind = "throw" THEN "error" ELSE "failed"
    /\ pc' = "idle"
    /\ UNCHANGED <<reading, other, now, session, currentUser, purchasedCredits, usage, credits,
                   generations, pending, url, nextId>>

\* generateOpeners when the generation succeeded: consumeGeneration, then
\* saveToHistory up to its insert request
GenFetchOk(o1, w, o2) ==
    /\ pc = "fetching"
    /\ Fault(Failed(<<o1, w, o2>>))
    /\ LET c == ConsumeGeneration(currentUser, purchasedCredits,
                                  cachedCloudUsage, cachedCloudUsagePeriod,
                                  usage, credits, generations, now, o1, w, o2)
           newItem == [id |-> nextId, date |-> now]
       IN  /\ purchasedCredits' = c.pcred
           /\ credits' = c.crows
           /\ cachedCloudUsage' = c.cu
           /\ cachedCloudUsagePeriod' = c.cup
           /\ usage' = Unshift(c.us, newItem)
           /\ pending' = IF currentUser # NoUser
                         THEN Append(pending, [user_id |-> currentUser,
                                               src |-> nextId])
                         ELSE pending
    /\ nextId' = nextId + 1
    /\ pc' = "idle"
    /\ UNCHANGED <<reading, other, now, session, currentUser, generations, url, toast>>

\* the Account Store answers the oldest generation insert of saveToHistory
InsertLands(w) ==
    /\ pending # <<>>
    /\ Fault(Failed(<<w>>))
    /\ generations' = IF w = "ok"
                      THEN Append(generations,
                                  [user_id |-> Head(pending).user_id,
                                   created_at |-> now,
                                   src |-> Head(pending).src])
                      ELSE generations
    /\ pending' = Tail(pending)
    /\ UNCHANGED <<reading, other, now, session, currentUser, purchasedCredits,
                   cachedCloudUsage, cachedCloudUsagePeriod, usage, credits,
                   url, pc, nextId, toast>>

\* the identities that sign in in this session
SessionUsers == {"A"}

Next ==
    \/ Tick
    \/ \E p \in PaymentParams, lc \in WriteOutcomes : InitSupabase(p, lc)
    \/ \E w \in WriteOutcomes, o \in ReadOutcomes : CheckPaymentStatus(w, o)
    \/ \E u \in SessionUsers, lc \in WriteOutcomes, chk \in CheckOutcomes,
          failed \in SUBSET (1..Min(Len(usage.history), MIGRATE_LIMIT)),
          o \in ReadOutcomes : SignedIn(u, lc, chk, failed, o)
    \/ SignedOut
    \/ AuthOther
    \/ \E so \in WriteOutcomes : SignOut(so)
    \/ \E o \in ReadOutcomes : GenCheck(o)
    \/ \E kind \in FetchFailures, o \in ReadOutcomes : GenFetchFail(kind, o)
    \/ \E o1 \in ReadOutcomes, w \in WriteOutcomes, o2 \in ReadOutcomes :
          GenFetchOk(o1, w, o2)
    \/ \E w \in WriteOutcomes : InsertLands(w)

Spec == Init /\ [][Next]_vars

\* a session that stays anonymous: nobody signs in
NextAnon ==
    \/ Tick
    \/ \E p \in PaymentParams : InitSupabase(p, "ok")
    \/ CheckPaymentStatus("ok", "ok")
    \/ GenCheckUpTo("ok", MaxAnonGens)
    \/ \E kind \in FetchFailures : GenFetchFail(kind, "ok")
    \/ GenFetchOk("ok", "ok", "ok")

SpecAnon == Init /\ [][NextAnon]_vars

\* saveToHistory of an anonymous caller: the localStorage part is all of it
SaveToHistory ==
    /\ currentUser = NoUser
    /\ nextId <= MaxSaves
    /\ usage' = Unshift(usage, [id |-> nextId, date |-> now])
    /\ nextId' = nextId + 1
    /\ UNCHANGED <<reading, other, now, session, currentUser, purchasedCredits,
                   cachedCloudUsage, cachedCloudUsagePeriod, credits,
                   generations, pending, url, pc, toast, faults>>

\* the local history under repeated saveToHistory calls
NextHistory == Tick \/ SaveToHistory

SpecHistory == Init /\ [][NextHistory]_vars

\* a browser whose local history already holds n entries of day 1, made by
\* identities that have since signed out
LocalLedger(n) ==
    [count |-> Min(n, FREE_LIMIT_AUTHENTICATED),
     period |-> IF n = 0 THEN NoPeriod ELSE GetCooldownPeriodStart(1),
     total |-> n,
     history |-> [i \in 1..n |-> [id |-> n + 1 - i, date |-> 1]]]

InitMigrate ==
    /\ now = 1
    /\ session = NoUser
    /\ currentUser = NoUser
    /\ purchasedCredits = 0
    /\ cachedCloudUsage = NoCount
    /\ cachedCloudUsagePeriod = NoPeriod
    /\ \E n \in {0, 1, 2} \cup (19..MaxLocal) :
          usage = LocalLedger(n) /\ nextId = n + 1
    /\ credits = [u \in Users |->
                    IF u = "A"
                    THEN [exists |-> TRUE, balance |-> 1,
                          total_purchased |-> CREDIT_PACK_SIZE]
                    ELSE NoRow]
    /\ generations = [i \in 1..InitRows |->
                        [user_id |-> "A", created_at |-> 1, src |-> 0]]
    /\ pending = <<>>
    /\ url = "none"
    /\ pc = "init"
    /\ toast = "none"
    /\ faults = 0
    /\ other = NoOther
    /\ reading = NoRead

\* sign-ins on that browser; at most MaxFaults migration inserts are rejected
NextMigrate ==
    \/ Tick
    \/ InitSupabase("none", "ok")
    \/ CheckPaymentStatus("ok", "ok")
    \/ \E u \in Users,
          failed \in {{}} \cup {{i} : i \in 1..Min(Len(usage.history),
                                                   MIGRATE_LIMIT)} :
          SignedIn(u, "ok", "rows", failed, "ok")
    \/ SignedOut

SpecMigrate == InitMigrate /\ [][NextMigrate]_vars

\* ------------------------------------------------------------ second session
\* the identity signed in on both sessions of the two-session specification
RaceUser == "A"

\* generateOpeners up to the fetch, on the second session
OtherGenCheck(o) ==
    /\ other.pc = "idle"
    /\ Fault(Failed(<<o>>))
    /\ LET r == GetFreeUsageCount(RaceUser, other.cachedCloudUsage,
                                  other.cachedCloudUsagePeriod, other.usage,
                                  generations, now, o)
           freeRemaining == GetRemainingFreeGenerations(RaceUser, r.used)
           canGen == freeRemaining > 0 \/ other.purchasedCredits > 0
       IN  /\ canGen => nextId <= MaxRaceGens
           /\ other' = [other EXCEPT
                           !.cachedCloudUsage = r.cu,
                           !.cachedCloudUsagePeriod = r.cup,
                           !.pc = IF canGen THEN "fetching" ELSE "idle"]
    /\ UNCHANGED <<reading, now, session, currentUser, purchasedCredits,
                   cachedCloudUsage, cachedCloudUsagePeriod, usage, credits,
                   generations, pending, url, pc, nextId, toast>>

\* generateOpeners when the generation did not succeed, on the second session
OtherGenFetchFail(kind, o) ==
    /\ other.pc = "fetching"
    /\ Fault(Failed(<<o>>))
    /\ LET r == GetFreeUsageCount(RaceUser, other.cachedCloudUsage,
                                  other.cachedCloudUsagePeriod, other.usage,
                                  generations, now, o)
       IN  other' = [other EXCEPT
                        !.cachedCloudUsage = r.cu,
                        !.cachedCloudUsagePeriod = r.cup,
                        !.pc = "idle"]
    /\ UNCHANGED <<reading, now, session, currentUser, purchasedCredits,
                   cachedCloudUsage, cachedCloudUsagePeriod, usage, credits,
                   generations, pending, url, pc, nextId, toast>>

\* generateOpeners when the generation succeeded, on the second session:
\* consumeGeneration, then saveToHistory up to its insert request
OtherGenFetchOk(o1, w, o2) ==
    /\ other.pc = "fetching"
    /\ Fault(Failed(<<o1, w, o2>>))
    /\ LET c == ConsumeGeneration(RaceUser, other.purchasedCredits,
                                  other.cachedCloudUsage,
                                  other.cachedCloudUsagePeriod, other.usage,
                                  credits, generations, now, o1, w, o2)
       IN  /\ credits' = c.crows
           /\ other' = [pc |-> "idle",
                        purchasedCredits |-> c.pcred,
                        cachedCloudUsage |-> c.cu,
                        cachedCloudUsagePeriod |-> c.cup,
                        usage |-> Unshift(c.us, [id |-> nextId, date |-> now])]
    /\ pending' = Append(pending, [user_id |-> RaceUser, src |-> nextId])
    /\ nextId' = nextId + 1
    /\ UNCHANGED <<reading, now, session, currentUser, purchasedCredits,
                   cachedCloudUsage, cachedCloudUsagePeriod, usage,
                   generations, url, pc, toast>>

\* both sessions are open on day 1 with RaceUser signed in and exactly one
\* unit left: rows = 9 and no credit, or rows = 10 and one credit; each
\* session holds the stored balance and has the count cached or not
InitRace ==
    /\ now = 1
    /\ reading = NoRead
    /\ session = RaceUser
    /\ currentUser = RaceUser
    /\ usage = EmptyUsage
    /\ pending = <<>>
    /\ url = "none"
    /\ pc = "idle"
    /\ nextId = 1
    /\ toast = "none"
    /\ faults = 0
    /\ \E credit \in {0, 1}, cached \in SUBSET {1, 2} :
          LET rows == FREE_LIMIT_AUTHENTICATED - 1 + credit
              key == GetCooldownPeriodStart(1)
          IN  /\ generations = [i \in 1..rows |->
                                  [user_id |-> RaceUser, created_at |-> 1,
                                   src |-> 0]]
              /\ credits = [u \in Users |->
                              IF u = RaceUser
                              THEN [exists |-> TRUE, balance |-> credit,
                                    total_purchased |-> CREDIT_PACK_SIZE]
                              ELSE NoRow]
              /\ purchasedCredits = credit
              /\ cachedCloudUsage = IF 1 \in cached THEN rows ELSE NoCount
              /\ cachedCloudUsagePeriod = IF 1 \in cached THEN key ELSE NoPeriod
              /\ other = [pc |-> "idle",
                          purchasedCredits |-> credit,
                          cachedCloudUsage |->
                             IF 2 \in cached THEN rows ELSE NoCount,
                          cachedCloudUsagePeriod |->
                             IF 2 \in cached THEN key ELSE NoPeriod,
                          usage |-> EmptyUsage]

\* two sessions of one identity generating at the same time; every Account
\* Store call succeeds
NextRace ==
    \/ GenCheckUpTo("ok", MaxRaceGens)
    \/ \E kind \in FetchFailures : GenFetchFail(kind, "ok")
    \/ GenFetchOk("ok", "ok", "ok")
    \/ OtherGenCheck("ok")
    \/ \E kind \in FetchFailures : OtherGenFetchFail(kind, "ok")
    \/ OtherGenFetchOk("ok", "ok", "ok")
    \/ InsertLands("ok")

SpecRace == InitRace /\ [][NextRace]_vars

\* ------------------------------------------------------- period key by date
\* the years the calendar specification runs through: a leap year first
Years == 2024..2026

IsLeapYear(y) == y % 4 = 0 /\ (y % 100 # 0 \/ y % 400 = 0)

YearLength(y) == IF IsLeapYear(y) THEN 366 ELSE 365

RECURSIVE DaysBefore(_)
\* the days from 1 January of the first year to 1 January of year y
DaysBefore(y) ==
    IF y \notin Years \/ y - 1 \notin Years THEN 0
    ELSE DaysBefore(y - 1) + YearLength(y - 1)

\* now.getFullYear() on day t, counted from 1 January of the first year
FullYear(t) ==
    CHOOSE y \in Years : DaysBefore(y) < t /\ t <= DaysBefore(y) + YearLength(y)

\* dayOfYear of day t: 1 on 1 January
DayOfYearAt(t) == t - DaysBefore(FullYear(t))

\* new Date(year, 0, day): the calendar day, which runs on into the next
\* year when day exceeds the year's length
DateOf(year, day) == DaysBefore(year) + day

\* getCooldownPeriodStart on day t, as a calendar day
PeriodKeyAt(t) == DateOf(FullYear(t), GetCooldownPeriodStart(DayOfYearAt(t)))

\* the 2-day window of day t: the year and the period number within it
WindowAt(t) == <<FullYear(t), PeriodNumber(DayOfYearAt(t))>>

LastDay == DaysBefore(2026) + YearLength(2026)

\* the clock of the calendar specification: now counts the days from
\* 1 January of the first year
NextDay ==
    /\ now < LastDay
    /\ now' = now + 1
    /\ UNCHANGED <<reading, other, session, currentUser, purchasedCredits, cachedCloudUsage,
                   cachedCloudUsagePeriod, usage, credits, generations,
                   pending, url, pc, nextId, toast, faults>>

SpecCalendar == Init /\ [][NextDay]_vars

\* a browser that two identities use one after the other; every Account Store
\* call succeeds
NextSwitch ==
    \/ Tick
    \/ InitSupabase("none", "ok")
    \/ CheckPaymentStatus("ok", "ok")
    \/ \E u \in Users : SignedIn(u, "ok", "rows", {}, "ok")
    \/ SignedOut
    \/ SignOut("ok")
    \/ GenCheck("ok")
    \/ \E kind \in FetchFailures : GenFetchFail(kind, "ok")
    \/ GenFetchOk("ok", "ok", "ok")
    \/ InsertLands("ok")

SpecSwitch == Init /\ [][NextSwitch]_vars

\* ------------------------------------------------------- a slow count query
\* showHome called without await (the SIGNED_IN handler, goBackFromAnalysis):
\* updateStats reaches getFreeUsageCount, which finds no cached count for the
\* period and sends the count query
ShowHome ==
    /\ pc = "idle"
    /\ currentUser # NoUser
    /\ reading = NoRead
    /\ ~(cachedCloudUsagePeriod = GetCooldownPeriodStart(now)
          /\ cachedCloudUsage # NoCount)
    /\ reading' = [count |-> RemoteCount(generations, currentUser,
                                         GetCooldownPeriodStart(now)),
                   period |-> GetCooldownPeriodStart(now)]
    /\ UNCHANGED <<other, now, session, currentUser, purchasedCredits,
                   cachedCloudUsage, cachedCloudUsagePeriod, usage, credits,
                   generations, pending, url, pc, nextId, toast, faults>>

\* getFreeUsageCount after its await: the answer of the count query is stored
ReadCompletes ==
    /\ reading # NoRead
    /\ cachedCloudUsage' = reading.count
    /\ cachedCloudUsagePeriod' = reading.period
    /\ reading' = NoRead
    /\ UNCHANGED <<other, now, session, currentUser, purchasedCredits, usage,
                   credits, generations, pending, url, pc, nextId, toast,
                   faults>>

\* one session whose home screen refresh may be answered late; every Account
\* Store call succeeds
NextStale ==
    \/ Tick
    \/ InitSupabase("none", "ok")
    \/ CheckPaymentStatus("ok", "ok")
    \/ \E u \in SessionUsers : SignedIn(u, "ok", "rows", {}, "ok")
    \/ ShowHome
    \/ ReadCompletes
    \/ GenCheck("ok")
    \/ \E kind \in FetchFailures : GenFetchFail(kind, "ok")
    \/ GenFetchOk("ok", "ok", "ok")
    \/ InsertLands("ok")

SpecStale == Init /\ [][NextStale]_vars

\* ------------------------------------------------------------------ claims
\* the count of the current period in the local ledger
PeriodCount(us, d) ==
    IF us.period = (d \div COOLDOWN_DAYS) * COOLDOWN_DAYS + 1 THEN us.count ELSE 0

\* the free remaining that a handler computes now when its count read has
\* outcome o
FreeAt(o) ==
    GetRemainingFreeGenerations(currentUser,
        GetFreeUsageCount(currentUser, cachedCloudUsage, cachedCloudUsagePeriod,
                          usage, generations, now, o).used)

FreeDebited == PeriodCount(usage', now) = PeriodCount(usage, now) + 1
CreditDebited == purchasedCredits' = purchasedCredits - 1

\* C1: every consumeGeneration that follows a granted canGenerate and a
\* successful generation debits exactly one unit: the free count of the
\* current period goes up by 1 or the credit balance goes down by 1, never
\* both and never neither, whatever the outcome of the credits write.
C1_ExactlyOneUnit ==
    [][(\E o1 \in ReadOutcomes, w \in WriteOutcomes, o2 \in ReadOutcomes :
            GenFetchOk(o1, w, o2))
        => (FreeDebited /\ ~CreditDebited) \/ (~FreeDebited /\ CreditDebited)]_vars

\* the count a store read returns now for the signed-in identity
StoreCount ==
    Cardinality({i \in DOMAIN generations :
                    /\ generations[i].user_id = currentUser
                    /\ generations[i].created_at >=
                          (now \div COOLDOWN_DAYS) * COOLDOWN_DAYS + 1})

CacheValid ==
    /\ cachedCloudUsage # NoCount
    /\ cachedCloudUsagePeriod = (now \div COOLDOWN_DAYS) * COOLDOWN_DAYS + 1

\* the cached count is untouched, or was read afresh from the store because
\* the signed-in caller had no cached count for the current period
CacheOnlyRefreshed ==
    \/ UNCHANGED <<cachedCloudUsage, cachedCloudUsagePeriod>>
    \/ /\ currentUser # NoUser
       /\ ~CacheValid
       /\ cachedCloudUsage' \in {StoreCount, 0}

RemoteBalanceDown ==
    /\ credits[currentUser].exists
    /\ credits' = [credits EXCEPT ![currentUser].balance = @ - 1]

\* C2 as stated: consumeGeneration with free remaining uses a free slot and
\* leaves the balance alone (in memory and remote); a credit is debited only
\* with no free remaining, and then the balance drops by exactly 1 while the
\* local count and the cached remote count are unchanged.
C2_PreferFreeStated ==
    [][\A o1 \in ReadOutcomes, w \in WriteOutcomes, o2 \in ReadOutcomes :
          GenFetchOk(o1, w, o2) =>
             /\ FreeAt(o1) > 0 =>
                   FreeDebited /\ UNCHANGED <<purchasedCredits, credits>>
             /\ (purchasedCredits' # purchasedCredits \/ credits' # credits) =>
                   /\ FreeAt(o1) = 0
                   /\ CreditDebited
                   /\ RemoteBalanceDown
                   /\ usage'.count = usage.count
                   /\ usage'.period = usage.period
                   /\ UNCHANGED <<cachedCloudUsage, cachedCloudUsagePeriod>>]_vars

\* C2 amended: the same, except that in the credit case the cached remote
\* count is not incremented: it keeps its value, or takes the value of a store
\* read that consumeGeneration made because no count was cached for the period.
C2_PreferFree ==
    [][\A o1 \in ReadOutcomes, w \in WriteOutcomes, o2 \in ReadOutcomes :
          GenFetchOk(o1, w, o2) =>
             /\ FreeAt(o1) > 0 =>
                   FreeDebited /\ UNCHANGED <<purchasedCredits, credits>>
             /\ (purchasedCredits' # purchasedCredits \/ credits' # credits) =>
                   /\ FreeAt(o1) = 0
                   /\ CreditDebited
                   /\ RemoteBalanceDown
                   /\ usage'.count = usage.count
                   /\ usage'.period = usage.period
                   /\ CacheOnlyRefreshed]_vars

\* a free slot and then the only credit have been consumed
C2_Witness ==
    /\ currentUser = "A"
    /\ usage.count = 1
    /\ usage.total = 2
    /\ purchasedCredits = 0
    /\ credits["A"].balance = 0

\* C3 as stated: when the generation does not succeed (non-OK response, no
\* openers, thrown error) generateOpeners changes nothing: the local record,
\* the cached remote count and the credit balance are unchanged and no
\* generation row is inserted or sent.
C3_FailureChargesNothingStated ==
    [][(\E kind \in FetchFailures, o \in ReadOutcomes : GenFetchFail(kind, o))
        => UNCHANGED <<usage, cachedCloudUsage, cachedCloudUsagePeriod,
                       purchasedCredits, credits, generations, pending>>]_vars

\* C3 amended: the same, except that the cached remote count may be read
\* afresh from the store (by showGenerate) when the signed-in caller has no
\* cached count for the current period; it is never incremented.
C3_FailureChargesNothing ==
    [][(\E kind \in FetchFailures, o \in ReadOutcomes : GenFetchFail(kind, o))
        => /\ UNCHANGED <<usage, purchasedCredits, credits, generations, pending>>
           /\ CacheOnlyRefreshed]_vars

\* a failed generation after which nothing was ever charged
C3_Witness ==
    /\ toast \in {"failed", "error"}
    /\ pc = "idle"
    /\ currentUser = "A"
    /\ usage = EmptyUsage
    /\ purchasedCredits = 1

\* C4: a generateOpeners call that canGenerate denies does not reach the
\* Content Generator and leaves the local record, the in-memory and remote
\* credit balance and the generations log (rows and inserts sent) unchanged.
C4_DenialMutatesNothing ==
    [][\A o \in ReadOutcomes :
          GenCheck(o) /\ ~(FreeAt(o) > 0 \/ purchasedCredits > 0)
          => /\ pc' = "idle"
             /\ toast' = "noGenerations"
             /\ UNCHANGED <<usage, purchasedCredits, credits, generations,
                            pending>>]_vars

\* a denied attempt of a signed-in caller out of free slots and credits
C4_Witness ==
    /\ toast = "noGenerations"
    /\ pc = "idle"
    /\ currentUser = "A"
    /\ purchasedCredits = 0
    /\ usage.total = 2

\* C5: the free remaining that getRemainingFreeGenerations returns is never
\* negative, in every reachable state and for every outcome of its count read.
C5_RemainingNonNegative == \A o \in ReadOutcomes : FreeAt(o) >= 0

\* the store holds more rows of the period than the limit allows
C5_Witness ==
    /\ currentUser = "A"
    /\ ~CacheValid
    /\ StoreCount > FREE_LIMIT_AUTHENTICATED
    /\ FreeAt("ok") = 0

\* the rows of the signed-in identity created in the current cooldown window
WindowRows ==
    Cardinality({i \in DOMAIN generations :
                    /\ generations[i].user_id = currentUser
                    /\ generations[i].created_at \div COOLDOWN_DAYS
                          = now \div COOLDOWN_DAYS})

\* C6: the free remaining is max(0, limit - used): limit 10 and used the
\* store's generation count of the current period for a signed-in caller
\* whose store read succeeds, limit 5 and used the local count of the current
\* period for an anonymous caller.
C6_RemainingFormula ==
    /\ currentUser # NoUser /\ ~CacheValid
          => FreeAt("ok") = Max(0, 10 - WindowRows)
    /\ currentUser = NoUser
          => \A o \in ReadOutcomes :
                FreeAt(o) = Max(0, 5 - PeriodCount(usage, now))

\* the history entries made in the current cooldown window
WindowEntries ==
    Cardinality({i \in DOMAIN usage.history :
                    usage.history[i].date \div COOLDOWN_DAYS
                       = now \div COOLDOWN_DAYS})

\* C7: in a session that stays anonymous and starts from a fresh local
\* ledger, canGenerate grants the attempt while fewer than 5 generations were
\* consumed in the current window and denies it from the 5th on, until the
\* window changes; at a denial getNextResetTime is later than now.
C7_AnonymousFiveFree ==
    [][GenCheckUpTo("ok", MaxAnonGens) /\ currentUser = NoUser
        => /\ WindowEntries < 5 => pc' = "fetching"
           /\ WindowEntries >= 5 =>
                 /\ pc' = "idle"
                 /\ toast' = "noGenerations"
                 /\ GetNextResetTime(now) > now]_vars

\* five generations and a denial in the first window, one more after the reset
C7_Witness ==
    /\ currentUser = NoUser
    /\ toast = "noGenerations"
    /\ usage.total = 6
    /\ usage.count = 1

\* C8: incrementUsage on a record of another period leaves count 1 and the
\* current period key; on a record of the current period it adds 1 to count;
\* either way total grows by exactly 1, and no step ever lowers total.
C8_LazyReset ==
    [][/\ usage'.total >= usage.total
       /\ \A o1 \in ReadOutcomes, w \in WriteOutcomes, o2 \in ReadOutcomes :
             GenFetchOk(o1, w, o2) /\ FreeAt(o1) > 0
             => /\ usage'.total = usage.total + 1
                /\ usage'.period = (now \div COOLDOWN_DAYS) * COOLDOWN_DAYS + 1
                /\ usage'.count =
                      IF usage.period = (now \div COOLDOWN_DAYS) * COOLDOWN_DAYS + 1
                      THEN usage.count + 1
                      ELSE 1]_vars

\* a count reset by the second window: two generations in all, one counted
C8_Witness ==
    /\ usage.period = 3
    /\ usage.count = 1
    /\ usage.total = 2

\* useCredit is refused: anonymous caller, no balance, or failed write
Refused(w) == currentUser = NoUser \/ purchasedCredits <= 0 \/ w = "fail"

\* C9: useCredit returns false and leaves the in-memory and the remote balance
\* alone for an anonymous caller, a balance <= 0 or a failed write, and
\* otherwise lowers the balance by exactly 1; no balance, in memory or in the
\* credits table, is ever negative.
C9_UseCredit ==
    /\ [](/\ purchasedCredits >= 0
          /\ \A u \in Users : credits[u].balance >= 0
          /\ \A w \in WriteOutcomes :
                LET r == UseCredit(currentUser, purchasedCredits, credits, w)
                IN  /\ r.ok = ~Refused(w)
                    /\ Refused(w) => r.pcred = purchasedCredits /\ r.rows = credits
                    /\ ~Refused(w) => r.pcred = purchasedCredits - 1)
    /\ [][\A o1 \in ReadOutcomes, w \in WriteOutcomes, o2 \in ReadOutcomes :
             GenFetchOk(o1, w, o2) /\ FreeAt(o1) = 0 /\ purchasedCredits > 0
             => IF Refused(w)
                THEN UNCHANGED <<purchasedCredits, credits>>
                ELSE /\ purchasedCredits' = purchasedCredits - 1
                     /\ credits'[currentUser].balance = purchasedCredits'
                     /\ RemoteBalanceDown]_vars

\* a pack was added to the initial credit and one credit was spent
C9_Witness ==
    /\ currentUser = "A"
    /\ purchasedCredits = CREDIT_PACK_SIZE
    /\ credits["A"].balance = CREDIT_PACK_SIZE
    /\ credits["A"].total_purchased = CREDIT_PACK_SIZE + 1

\* C10: addCredits grants nothing, in memory or in the credits table, for an
\* anonymous caller or a failed write, and returns false; an anonymous
\* caller's balance stays 0.
C10_AddCreditsRefused ==
    /\ [](\A w \in WriteOutcomes :
             currentUser = NoUser \/ w = "fail"
             => ~AddCredits(currentUser, purchasedCredits, credits,
                            CREDIT_PACK_SIZE, w).ok)
    /\ [][\A w \in WriteOutcomes, o \in ReadOutcomes :
             /\ CheckPaymentStatus(w, o)
             /\ url = "success"
             /\ (currentUser = NoUser \/ w = "fail")
             => /\ UNCHANGED <<purchasedCredits, credits>>
                /\ currentUser = NoUser => purchasedCredits' = 0]_vars

\* an anonymous page load with payment=success after which nothing was granted
C10_Witness ==
    /\ toast = "creditsAdded"
    /\ pc = "idle"
    /\ session = NoUser
    /\ currentUser = NoUser
    /\ purchasedCredits = 0
    /\ ~credits["B"].exists
    /\ credits["A"].balance = 1

\* a checkPaymentStatus step of a signed-in caller whose addCredits succeeds
AddSucceeds ==
    /\ url = "success"
    /\ currentUser # NoUser
    /\ CheckPaymentStatus("ok", "ok") \/ CheckPaymentStatus("ok", "null")
          \/ CheckPaymentStatus("ok", "throw")

\* C11: a successful addCredits(amount) of a signed-in caller leaves in the
\* credits row the balance the row held before plus amount, whatever the
\* in-memory balance was (also after a loadCredits that found no row or
\* failed).
C11_AddIsDurable ==
    [][AddSucceeds
        => /\ credits'[currentUser].exists
           /\ credits'[currentUser].balance =
                 credits[currentUser].balance + CREDIT_PACK_SIZE]_vars

\* C12: each successful addCredits(amount) raises the stored total_purchased
\* by exactly amount, and no step makes a stored total_purchased smaller.
C12_TotalPurchasedMonotonic ==
    [][/\ \A u \in Users :
             credits'[u].total_purchased >= credits[u].total_purchased
       /\ AddSucceeds
             => credits'[currentUser].total_purchased =
                   credits[currentUser].total_purchased + CREDIT_PACK_SIZE]_vars

\* C13: whenever nobody is signed in (currentUser is null) the in-memory
\* credit balance is 0, so canGenerate then depends on the free quota alone.
C13_AnonymousHasNoCredits ==
    currentUser = NoUser =>
       /\ purchasedCredits = 0
       /\ \A o \in ReadOutcomes :
             (FreeAt(o) > 0 \/ purchasedCredits > 0) <=> FreeAt(o) > 0

\* C14: checkPaymentStatus on a URL with payment=success applies addCredits(25)
\* once and clears the parameter; on any other URL it applies no addCredits;
\* no other step raises a balance, and a running page never carries the
\* success parameter, so the redirect is not credited a second time.
C14_OneAddPerRedirect ==
    [][/\ \A w \in WriteOutcomes, o \in ReadOutcomes :
             CheckPaymentStatus(w, o)
             => /\ url' = "none"
                /\ url = "success" =>
                      LET a == AddCredits(currentUser, purchasedCredits,
                                          credits, CREDIT_PACK_SIZE, w)
                      IN  /\ purchasedCredits' = a.pcred
                          /\ credits' = a.rows
                          /\ purchasedCredits' \in
                                {purchasedCredits,
                                 purchasedCredits + CREDIT_PACK_SIZE}
                /\ url # "success" => UNCHANGED <<purchasedCredits, credits>>
       /\ (\E u \in Users : credits'[u].balance > credits[u].balance)
             => pc = "loaded" /\ url = "success" /\ pc' = "idle"
       /\ url' = "success" => pc' = "loaded"]_vars

\* a signed-in page load with payment=success that added the pack once
C14_Witness ==
    /\ toast = "creditsAdded"
    /\ url = "none"
    /\ pc = "idle"
    /\ currentUser = "A"
    /\ purchasedCredits = CREDIT_PACK_SIZE + 1
    /\ credits["A"].balance = CREDIT_PACK_SIZE + 1

\* the generations the signed-in identity has in the store or on the way to it
OwnGenerations ==
    Cardinality({i \in DOMAIN generations :
                    generations[i].user_id = currentUser})
    + Cardinality({i \in DOMAIN pending : pending[i].user_id = currentUser})

\* C15: the count getFreeUsageCount returns from the cache for the signed-in
\* identity was fetched or incremented for that identity: with every store
\* call succeeding it never exceeds the identity's own generations, also
\* after another identity used the same page in the same period.
C15_CacheKeyedByIdentity ==
    currentUser # NoUser /\ CacheValid
    => GetFreeUsageCount(currentUser, cachedCloudUsage, cachedCloudUsagePeriod,
                         usage, generations, now, "ok").used <= OwnGenerations

\* C16: every saveToHistory call puts the new entry at index 0, keeps the
\* retained entries in their order and drops only the oldest one of a full
\* list, so the local history never holds more than 50 entries and stays in
\* most-recent-first order.
C16_HistoryBounded ==
    [][SaveToHistory
        => LET h == usage.history
               g == usage'.history
           IN  /\ Len(g) = Min(Len(h) + 1, 50)
               /\ g[1] = [id |-> nextId, date |-> now]
               /\ \A i \in 2..Len(g) : g[i] = h[i - 1]
               /\ \A i, j \in 1..Len(g) : i < j => g[i].id > g[j].id]_vars

\* 52 saves: the list is full and the two oldest entries are gone
C16_Witness ==
    /\ Len(usage.history) = 50
    /\ usage.history[1].id = 52
    /\ usage.history[50].id = 3

\* migrateLocalHistoryToCloud ran for identity u and appended rows
Migrated(u) ==
    \E lc \in WriteOutcomes, chk \in CheckOutcomes,
       failed \in SUBSET (1..Min(Len(usage.history), 20)), o \in ReadOutcomes :
       /\ SignedIn(u, lc, chk, failed, o)
       /\ generations' # generations

\* C17: a migrateLocalHistoryToCloud call for an identity that already has a
\* generation row in the store inserts nothing, so a second call after one
\* that inserted a row adds nothing.
C17_MigrationIdempotent ==
    [][\A u \in Users :
          (\E i \in DOMAIN generations : generations[i].user_id = u)
          => ~Migrated(u)]_vars

\* C18: over any sequence of SIGNED_IN events, also when the existence check
\* yields no data, migration inserts only for an identity without rows in the
\* store, and no local history entry is in the store twice for one identity.
C18_MigratedExactlyOnce ==
    /\ [](\A i, j \in DOMAIN generations :
             /\ i # j
             /\ generations[i].src > 0
             /\ generations[i].user_id = generations[j].user_id
             => generations[i].src # generations[j].src)
    /\ [][\A u \in Users :
             Migrated(u) =>
                Cardinality({i \in DOMAIN generations :
                                generations[i].user_id = u}) = 0]_vars

\* the rows a step appended to the generations table
NewRows == SubSeq(generations', Len(generations) + 1, Len(generations'))

\* C19: with no row of the identity in the store and n local entries, migration
\* attempts the first min(n, 20) entries in local order: every entry among
\* them whose insert is not rejected becomes a row, in that order, also after
\* a rejected insert; the local record is the same before and after.
C19_MigratesFirstTwenty ==
    [][\A u \in Users,
          failed \in {{}} \cup {{i} : i \in 1..Min(Len(usage.history), 20)} :
          /\ SignedIn(u, "ok", "rows", failed, "ok")
          /\ \A i \in DOMAIN generations : generations[i].user_id # u
          => LET h == usage.history
                 m == Min(Len(h), 20)
                 pos(k) == k - Cardinality({j \in failed : j < k})
             IN  /\ usage' = usage
                 /\ SubSeq(generations', 1, Len(generations)) = generations
                 /\ Len(NewRows) = m - Cardinality(failed)
                 /\ \A k \in (1..m) \ failed :
                       NewRows[pos(k)] =
                          [user_id |-> u, created_at |-> h[k].date,
                           src |-> h[k].id]]_vars

\* 22 local entries, the first 20 attempted, one insert rejected
C19_Witness ==
    /\ Len(usage.history) = 22
    /\ faults = 1
    /\ Cardinality({i \in DOMAIN generations :
                       generations[i].user_id = "B"}) = 19
    /\ \E i \in DOMAIN generations : generations[i] =
          [user_id |-> "B", created_at |-> 1, src |-> 3]

C21_NextResetIsKeyChange ==
    LET reset == GetNextResetTime(now)
    IN  /\ reset > now
        /\ GetCooldownPeriodStart(reset) # GetCooldownPeriodStart(now)
        /\ \A d \in (now + 1)..(reset - 1) :
              GetCooldownPeriodStart(d) = GetCooldownPeriodStart(now)

\* C22: the start instant getFreeUsageCount filters from is the start of the
\* current window and never later than now, so a fresh store count holds
\* every row the signed-in identity has from the current window.
C22_CountFromWindowStart ==
    /\ GetCooldownPeriodStart(now) <= now
    /\ \A d \in 1..now :
          PeriodNumber(d) = PeriodNumber(now) => GetCooldownPeriodStart(now) <= d
    /\ currentUser # NoUser =>
          RemoteCount(generations, currentUser, GetCooldownPeriodStart(now))
             = WindowRows

\* C24: a failed store count read of a signed-in caller (an error result or a
\* rejection) makes getFreeUsageCount return the local count of the current
\* period and leaves the cache as it was, so the next call reads again.
C24_FailedReadFallsBack ==
    currentUser # NoUser /\ ~CacheValid
    => \A o \in {"null", "throw"} :
          LET r == GetFreeUsageCount(currentUser, cachedCloudUsage,
                                     cachedCloudUsagePeriod, usage,
                                     generations, now, o)
          IN  /\ r.used = PeriodCount(usage, now)
              /\ r.cu = cachedCloudUsage
              /\ r.cup = cachedCloudUsagePeriod

\* C27: a consumption made while nobody is signed in leaves the cached remote
\* count and its period, left over from an earlier signed-in session, as
\* they were.
C27_AnonymousLeavesCache ==
    [][\A o1 \in ReadOutcomes, w \in WriteOutcomes, o2 \in ReadOutcomes :
          GenFetchOk(o1, w, o2) /\ currentUser = NoUser
          => UNCHANGED <<cachedCloudUsage, cachedCloudUsagePeriod>>]_vars

\* C28: migration inserts only entries made while nobody was signed in: no
\* local entry that saveToHistory also sent to one identity's store is in the
\* store under another identity.
C28_MigratesAnonymousOnly ==
    \A i, j \in DOMAIN generations :
       generations[i].src > 0 /\ generations[i].src = generations[j].src
       => generations[i].user_id = generations[j].user_id

\* the generations delivered by the two sessions
Delivered == Len(usage.history) + Len(other.usage.history)

\* the race started with one credit (and no free slot) left
CreditRace ==
    Cardinality({i \in DOMAIN generations : generations[i].src = 0})
       = FREE_LIMIT_AUTHENTICATED

\* the units the Account Store shows as used since the race began: the
\* balance taken off the credits row, or the generation rows added or sent
Recorded ==
    IF CreditRace
    THEN 1 - credits[RaceUser].balance
    ELSE Cardinality({i \in DOMAIN generations : generations[i].src > 0})
         + Len(pending)

\* C23: two sessions of one identity that start with exactly one unit left
\* (a free slot or a credit) can both be authorized off that unit, but no
\* more: at most two generations succeed, and the store is short of the
\* generations delivered by at most one unit.
C23_OverConsumptionAtMostOne ==
    /\ Delivered <= 2
    /\ Delivered - Recorded <= 1
    /\ credits[RaceUser].balance >= 0

\* both sessions consumed the one credit
C23_Witness ==
    /\ CreditRace
    /\ Len(usage.history) = 1
    /\ Len(other.usage.history) = 1
    /\ credits[RaceUser].balance = 0
    /\ purchasedCredits = 0
    /\ other.purchasedCredits = 0

\* the free slots the second session would compute with a successful read
OtherFreeAt ==
    GetRemainingFreeGenerations(RaceUser,
        GetFreeUsageCount(RaceUser, other.cachedCloudUsage,
                          other.cachedCloudUsagePeriod, other.usage,
                          generations, now, "ok").used)

\* C26: with two sessions of one identity on one credits row, every useCredit
\* that returns true lowers the stored balance by exactly 1, so n successful
\* spends leave b - n.
C26_SharedBalanceExact ==
    [][\/ /\ GenFetchOk("ok", "ok", "ok")
          /\ FreeAt("ok") = 0
          /\ purchasedCredits > 0
       \/ /\ OtherGenFetchOk("ok", "ok", "ok")
          /\ OtherFreeAt = 0
          /\ other.purchasedCredits > 0
       => credits'[RaceUser].balance = credits[RaceUser].balance - 1]_vars

\* the step stays within one page session, one identity and one period
SameSession ==
    /\ pc \notin {"init", "loaded"}
    /\ pc' \notin {"init", "loaded"}
    /\ currentUser # NoUser
    /\ currentUser' = currentUser
    /\ GetCooldownPeriodStart(now') = GetCooldownPeriodStart(now)

\* C25: within one session, period and signed-in identity the free remaining
\* never increases; a free consumption leaves a cached count one higher, so
\* the next free remaining is one lower without a count query; and the answer
\* of a count query sent earlier never lowers the cached count
C25_RemainingNeverIncreases ==
    [][SameSession
        => /\ FreeAt("ok")' <= FreeAt("ok")
           /\ (GenFetchOk("ok", "ok", "ok") /\ FreeAt("ok") > 0
                 => /\ CacheValid'
                    /\ FreeAt("ok")' = FreeAt("ok") - 1)
           /\ (ReadCompletes /\ CacheValid
                 => cachedCloudUsage' >= cachedCloudUsage)]_vars
====
